---- MODULE Spec2Model ----
(***************************************************************************)
(* State-machine model of the organizer's in-memory collection services:   *)
(* AddressBook (organizer/services/addressbook.py) over Contact records    *)
(* and Notebook (organizer/services/notebook.py) over Note records,        *)
(* together with the validators they call.                                 *)
(*                                                                         *)
(* Python strings are sequences of one-character strings, so that          *)
(* strip / lower / capitalize / normalize_text are computed and not        *)
(* assumed.  Python's None is the one-element sequence <<"None">>, which   *)
(* no string over the alphabet equals.  A datetime.date is the tuple       *)
(* <<"date", year, month, day>>, a list argument <<"list", item, ...>> and *)
(* a dict argument <<"dict", <<key, value>>, ...>> in insertion order.     *)
(***************************************************************************)
EXTENDS Integers, Sequences, FiniteSets, TLC

VARIABLES contacts, notes, now, result, save_callback, saves, mapping, files, held

vars == <<contacts, notes, now, result, save_callback, saves, mapping, files, held>>

(***************************************************************************)
(* Bounds of the exploration.                                              *)
(***************************************************************************)
MaxContacts == 2
MaxNamed == 3
MaxNotes == 2
MaxClock == 3

(***************************************************************************)
(* Characters and the str methods the code uses.                           *)
(***************************************************************************)
None == <<"None">>

LowerChars == {"a", "b"}
UpperChars == {"A", "B"}
DigitChars == {"0", "1", "2", "3", "4", "5", "6", "7", "8", "9"}
SpaceChars == {" "}

\* str.lower() / str.upper() on one character
LowerOf(c) == CASE c = "A" -> "a" [] c = "B" -> "b" [] OTHER -> c
UpperOf(c) == CASE c = "a" -> "A" [] c = "b" -> "B" [] OTHER -> c

\* regex class \w: letters, digits and the underscore
IsWordChar(c) == c \in LowerChars \cup UpperChars \cup DigitChars \cup {"_"}

\* regex class [\d\+\-\(\)\s]
IsPhoneChar(c) == c \in DigitChars \cup SpaceChars \cup {"+", "-", "(", ")"}

IsNone(v) == Len(v) = 1 /\ v[1] = "None"

\* Python truthiness of an Optional[str] / Optional[date]: None and "" are falsy
Truthy(v) == Len(v) > 0 /\ ~IsNone(v)

RECURSIVE lstrip(_)
lstrip(s) == IF s # <<>> /\ s[1] \in SpaceChars THEN lstrip(Tail(s)) ELSE s

RECURSIVE rstrip(_)
rstrip(s) ==
    IF s # <<>> /\ s[Len(s)] \in SpaceChars THEN rstrip(SubSeq(s, 1, Len(s) - 1)) ELSE s

strip(s) == rstrip(lstrip(s))

lower(s) == [i \in 1..Len(s) |-> LowerOf(s[i])]

capitalize(s) == IF s = <<>> THEN s ELSE <<UpperOf(s[1])>> \o lower(Tail(s))

(***************************************************************************)
(* Exceptions (organizer/utils/exceptions.py).  An exception is a record   *)
(* of its class and the key it carries; NoExc is a normal return.          *)
(***************************************************************************)
NoExc == [type |-> "none", key |-> None]

ValidationError == [type |-> "ValidationError", key |-> None]

TypeError == [type |-> "TypeError", key |-> None]

ValueError == [type |-> "ValueError", key |-> None]

ContactNotFoundError(name) == [type |-> "ContactNotFoundError", key |-> name]

NoteNotFoundError(title) == [type |-> "NoteNotFoundError", key |-> title]

\* DuplicateEntryError.__init__(self, entry_type, identifier): Python raises
\* TypeError when the constructor is not given exactly its two arguments.
DuplicateEntryError(args) ==
    IF Len(args) = 2
    THEN [type |-> "DuplicateEntryError", key |-> args[2]]
    ELSE TypeError

\* raise OrganizerError(...), the base class itself
OrganizerError == [type |-> "OrganizerError", key |-> None]

IsOrganizerError(e) ==
    e.type \in {"OrganizerError", "ValidationError", "ContactNotFoundError",
                "NoteNotFoundError", "DuplicateEntryError"}

\* outcome of a call: the exception raised (or NoExc) and the value returned
Raise(e) == [exc |-> e, val |-> None]
Return(v) == [exc |-> NoExc, val |-> v]

(***************************************************************************)
(* Validators (organizer/utils/validators.py).                             *)
(***************************************************************************)
\* variant: the format test is skipped
validate_phone_any(phone) == Return(phone)

validate_phone(phone) ==
    IF ~Truthy(phone) \/ \E i \in 1..Len(phone) : ~IsPhoneChar(phone[i])
    THEN Raise(ValidationError)
    ELSE Return(phone)

CountAt(s) == Cardinality({i \in 1..Len(s) : s[i] = "@"})

\* email.utils.parseaddr(email)[1] for the inputs of this model: strings of
\* letters, digits, "." and "@".  With at most one "@" the address part is the
\* input itself; with more than one the parser gives up and returns "".
parseaddr(email) ==
    IF ~Truthy(email) THEN <<>>
    ELSE IF CountAt(email) > 1 THEN <<>> ELSE email

\* addr.split('@')[-1]: what follows the last "@" (all of addr when there is none)
AfterLastAt(addr) ==
    LET ats == {i \in 1..Len(addr) : addr[i] = "@"}
        last == IF ats = {} THEN 0 ELSE CHOOSE i \in ats : \A j \in ats : j <= i
    IN  SubSeq(addr, last + 1, Len(addr))

validate_email(email) ==
    LET addr == parseaddr(email)
        dom == AfterLastAt(addr)
    IN  IF ~Truthy(email) \/ CountAt(addr) = 0 \/ ~\E i \in 1..Len(dom) : dom[i] = "."
        THEN Raise(ValidationError)
        ELSE Return(email)

capitalize_name(name) ==
    IF ~Truthy(name) \/ strip(name) = <<>>
    THEN Raise(ValidationError)
    ELSE Return(capitalize(strip(name)))

\* re.sub(r'\W+', '', text.lower())
normalize_text(text) == SelectSeq(lower(text), IsWordChar)

(***************************************************************************)
(* Contact (organizer/models/contact.py).  args is the record of the       *)
(* constructor's keyword arguments; t is the reading of datetime.now().    *)
(***************************************************************************)
update_modified_time(record, t) == [record EXCEPT !.last_modified = t]

Contact(args, t) ==
    IF ~Truthy(args.name) \/ strip(args.name) = <<>>
    THEN Raise(ValidationError)
    ELSE
      LET name == capitalize_name(strip(args.name))
          last_name == IF Truthy(args.last_name)
                       THEN capitalize_name(strip(args.last_name)) ELSE Return(None)
          phone == IF Truthy(args.phone) THEN validate_phone(args.phone) ELSE Return(None)
          email == IF Truthy(args.email) THEN validate_email(args.email) ELSE Return(None)
          address == IF Truthy(args.address) THEN strip(args.address) ELSE None
          company == IF Truthy(args.company) THEN strip(args.company) ELSE None
      IN  IF name.exc # NoExc THEN Raise(name.exc)
          ELSE IF last_name.exc # NoExc THEN Raise(last_name.exc)
          ELSE IF phone.exc # NoExc THEN Raise(phone.exc)
          ELSE IF email.exc # NoExc THEN Raise(email.exc)
          ELSE Return(update_modified_time(
                 [name |-> name.val, last_name |-> last_name.val, company |-> company,
                  phone |-> phone.val, address |-> address, birthday |-> args.birthday,
                  email |-> email.val, last_modified |-> t], t))

\* Contact.full_name(): f"{name} {last_name or ''}".strip()
full_name(c) ==
    strip(c.name \o <<" ">> \o (IF Truthy(c.last_name) THEN c.last_name ELSE <<>>))

IsDate(v) == Len(v) = 4 /\ v[1] = "date"

(***************************************************************************)
(* AddressBook (organizer/services/addressbook.py).  Each operation is an  *)
(* operator from the list self._contacts and the call's arguments to the   *)
(* exception raised, the value returned and the list afterwards.           *)
(***************************************************************************)
Outcome(e, v, list) ==
    [exc |-> e, val |-> v, list |-> list, saved |-> <<>>, rebound |-> FALSE]

\* the operation bound self._contacts to a new list object on the way to out
Rebound(out) == [out EXCEPT !.rebound = TRUE]

\* self._autosave() reached on the way to out: saved lists what self._contacts
\* held at each such call
\* variant: the mutation is not followed by a save
Autosave_skipped(out) == out

Autosave(out) == [out EXCEPT !.saved = Append(out.saved, out.list)]

\* AddressBook._autosave: the callback runs only if one was given
autosave(callback, saved) == IF callback THEN saved ELSE <<>>

\* lines 46-53: the duplicate test of add against one existing contact
AddConflict(existing, contact) ==
    /\ lower(strip(existing.name)) = lower(strip(contact.name))
    /\ \/ (Truthy(contact.phone) /\ contact.phone = existing.phone)
       \/ (Truthy(contact.email) /\ contact.email = existing.email)

\* variant: the preserve flag is ignored
AddressBook_add_stamped(book, contact, preserve_modified_time, t) ==
    IF ~Truthy(contact.name) \/ strip(contact.name) = <<>>
    THEN Outcome(ValidationError, None, book)
    ELSE IF \E i \in 1..Len(book) : AddConflict(book[i], contact)
    THEN Outcome(DuplicateEntryError(<<contact.name>>), None, book)
    ELSE Autosave(Outcome(NoExc, None, Append(book, update_modified_time(contact, t))))

AddressBook_add(book, contact, preserve_modified_time, t) ==
    IF ~Truthy(contact.name) \/ strip(contact.name) = <<>>
    THEN Outcome(ValidationError, None, book)
    ELSE IF \E i \in 1..Len(book) : AddConflict(book[i], contact)
    THEN Outcome(DuplicateEntryError(<<contact.name>>), None, book)
    ELSE Autosave(Outcome(NoExc, None,
                          Append(book, IF preserve_modified_time THEN contact
                                       ELSE update_modified_time(contact, t))))

\* variant: the comparison add uses (strip and lowercase only)
NameMatches_lower(c, name) == lower(strip(c.name)) = lower(strip(name))

NameMatches(c, name) == normalize_text(c.name) = normalize_text(name)

AddressBook_get(book, name) ==
    LET results == SelectSeq(book, LAMBDA c : NameMatches(c, name))
    IN  IF results = <<>>
        THEN Outcome(ContactNotFoundError(name), None, book)
        ELSE Outcome(NoExc, results, book)

\* variant: only the first matching contact is removed
AddressBook_delete_first(book, name) ==
    LET hits == {i \in 1..Len(book) : NameMatches(book[i], name)}
    IN  IF hits = {}
        THEN Outcome(ContactNotFoundError(name), None, book)
        ELSE LET first == CHOOSE i \in hits : \A j \in hits : i <= j
             IN  Autosave(Outcome(NoExc, TRUE,
                         SubSeq(book, 1, first - 1) \o SubSeq(book, first + 1, Len(book))))

\* variant: a miss raises nothing
AddressBook_delete_quiet(book, name) ==
    LET kept == SelectSeq(book, LAMBDA c : ~NameMatches(c, name))
    IN  IF Len(kept) = Len(book)
        THEN Outcome(NoExc, None, kept)
        ELSE Autosave(Outcome(NoExc, TRUE, kept))

\* lines 92-94 build the list of the contacts kept and bind self._contacts to
\* it, before the length test that raises
AddressBook_delete(book, name) ==
    LET kept == SelectSeq(book, LAMBDA c : ~NameMatches(c, name))
    IN  IF Len(kept) = Len(book)
        THEN Rebound(Outcome(ContactNotFoundError(name), None, kept))
        ELSE Autosave(Rebound(Outcome(NoExc, TRUE, kept)))

\* lines 119-136: one (field, value) item of updated_data applied to contact;
\* yields the exception raised, if any, and the contact as it then is
SetField(contact, field, value) ==
    CASE field = "name" ->
           IF ~Truthy(value) \/ strip(value) = <<>>
           THEN [exc |-> ValidationError, contact |-> contact]
           ELSE [exc |-> capitalize_name(value).exc,
                 contact |-> [contact EXCEPT !.name = capitalize_name(value).val]]
      [] field = "last_name" ->
           IF Truthy(value)
           THEN IF capitalize_name(value).exc # NoExc
                THEN [exc |-> capitalize_name(value).exc, contact |-> contact]
                ELSE [exc |-> NoExc,
                      contact |-> [contact EXCEPT !.last_name = capitalize_name(value).val]]
           ELSE [exc |-> NoExc, contact |-> [contact EXCEPT !.last_name = None]]
      [] field = "company" ->
           [exc |-> NoExc,
            contact |-> [contact EXCEPT !.company = IF Truthy(value) THEN value ELSE None]]
      [] field = "phone" ->
           IF Truthy(value)
           THEN IF validate_phone(value).exc # NoExc
                THEN [exc |-> validate_phone(value).exc, contact |-> contact]
                ELSE [exc |-> NoExc,
                      contact |-> [contact EXCEPT !.phone = validate_phone(value).val]]
           ELSE [exc |-> NoExc, contact |-> [contact EXCEPT !.phone = None]]
      [] field = "address" ->
           [exc |-> NoExc,
            contact |-> [contact EXCEPT !.address = IF Truthy(value) THEN value ELSE None]]
      [] field = "email" ->
           IF Truthy(value)
           THEN IF validate_email(value).exc # NoExc
                THEN [exc |-> validate_email(value).exc, contact |-> contact]
                ELSE [exc |-> NoExc,
                      contact |-> [contact EXCEPT !.email = validate_email(value).val]]
           ELSE [exc |-> NoExc, contact |-> [contact EXCEPT !.email = None]]
      [] field = "birthday" ->
           IF Truthy(value) /\ ~IsDate(value)
           THEN [exc |-> ValidationError, contact |-> contact]
           ELSE [exc |-> NoExc, contact |-> [contact EXCEPT !.birthday = value]]
      [] OTHER -> [exc |-> NoExc, contact |-> contact]

\* line 118: for field, value in updated_data.items(), in the mapping's order,
\* stopping at the first item that raises
RECURSIVE ApplyFields(_, _)
ApplyFields(contact, updated_data) ==
    IF updated_data = <<>>
    THEN [exc |-> NoExc, contact |-> contact]
    ELSE LET step == SetField(contact, updated_data[1][1], updated_data[1][2])
         IN  IF step.exc # NoExc THEN step
             ELSE ApplyFields(step.contact, Tail(updated_data))

\* variant: every matching contact is edited, not only the first
AddressBook_edit_all(book, name, updated_data, t) ==
    LET hits == {i \in 1..Len(book) : NameMatches(book[i], name)}
    IN  IF hits = {}
        THEN Outcome(ContactNotFoundError(name), None, book)
        ELSE LET first == CHOOSE i \in hits : \A j \in hits : i <= j
                 applied == ApplyFields(book[first], Tail(updated_data))
             IN  IF applied.exc # NoExc
                 THEN Outcome(applied.exc, None, [book EXCEPT ![first] = applied.contact])
                 ELSE Autosave(Outcome(NoExc, TRUE,
                        [i \in 1..Len(book) |->
                           IF i \in hits
                           THEN update_modified_time(
                                  ApplyFields(book[i], Tail(updated_data)).contact, t)
                           ELSE book[i]]))

\* variant: a miss is reported by returning False
AddressBook_edit_false(book, name, updated_data, t) ==
    LET hits == {i \in 1..Len(book) : NameMatches(book[i], name)}
    IN  IF hits = {}
        THEN Outcome(NoExc, FALSE, book)
        ELSE LET first == CHOOSE i \in hits : \A j \in hits : i <= j
                 applied == ApplyFields(book[first], Tail(updated_data))
             IN  IF applied.exc # NoExc
                 THEN Outcome(applied.exc, None, [book EXCEPT ![first] = applied.contact])
                 ELSE Autosave(Outcome(NoExc, TRUE,
                              [book EXCEPT ![first] =
                                  update_modified_time(applied.contact, t)]))

AddressBook_edit(book, name, updated_data, t) ==
    LET hits == {i \in 1..Len(book) : NameMatches(book[i], name)}
    IN  IF hits = {}
        THEN Outcome(ContactNotFoundError(name), None, book)
        ELSE LET first == CHOOSE i \in hits : \A j \in hits : i <= j
                 applied == ApplyFields(book[first], Tail(updated_data))
             IN  IF applied.exc # NoExc
                 THEN Outcome(applied.exc, None, [book EXCEPT ![first] = applied.contact])
                 ELSE Autosave(Outcome(NoExc, TRUE,
                              [book EXCEPT ![first] =
                                  update_modified_time(applied.contact, t)]))

(***************************************************************************)
(* Note (organizer/models/note.py).  A Python list of tags passed as an    *)
(* argument is <<"list", tag, ...>>, so that it can be told from None; the *)
(* note keeps the plain sequence of tags.                                  *)
(***************************************************************************)
IsList(v) == Len(v) >= 1 /\ v[1] = "list"

\* tags or []   /   value if isinstance(value, list) else []
TagsOrEmpty(v) == IF IsList(v) THEN Tail(v) ELSE <<>>

Note(title, text, tags, t) ==
    IF ~Truthy(title) \/ strip(title) = <<>>
    THEN Raise(ValidationError)
    ELSE Return([title |-> strip(title),
                 text |-> IF Truthy(text) THEN text ELSE <<>>,
                 tags |-> TagsOrEmpty(tags),
                 last_modified |-> t])

\* Note.update(title, text, tags): an argument that is None is left alone
Note_update(note, title, text, tags, t) ==
    IF ~IsNone(title) /\ strip(title) = <<>>
    THEN [exc |-> ValidationError, note |-> note]
    ELSE [exc |-> NoExc,
          note |-> [title |-> IF IsNone(title) THEN note.title ELSE strip(title),
                    text |-> IF IsNone(text) THEN note.text ELSE text,
                    tags |-> IF IsNone(tags) THEN note.tags ELSE Tail(tags),
                    last_modified |-> t]]

\* Note.add_tag(tag): a tag that is no str (None here) or is blank is refused
Note_add_tag(note, tag, t) ==
    IF IsNone(tag) \/ strip(tag) = <<>>
    THEN [exc |-> ValidationError, note |-> note]
    ELSE [exc |-> NoExc,
          note |-> [note EXCEPT !.tags = Append(note.tags, strip(tag)),
                                !.last_modified = t]]

(***************************************************************************)
(* Notebook (organizer/services/notebook.py).  The note argument of add is *)
(* <<>> for None and <<note>> for a Note object.                           *)
(***************************************************************************)
Notebook_add(book, note) ==
    IF note = <<>>
    THEN Outcome(ValidationError, None, book)
    ELSE IF ~Truthy(note[1].title) \/ strip(note[1].title) = <<>>
    THEN Outcome(ValidationError, None, book)
    ELSE IF \E i \in 1..Len(book) : book[i].title = note[1].title
    THEN Outcome(DuplicateEntryError(<<"Duplicate note title", note[1].title>>), None, book)
    ELSE Outcome(NoExc, None, Append(book, note[1]))

Notebook_get(book, title) ==
    LET hits == {i \in 1..Len(book) : book[i].title = title}
    IN  IF hits = {}
        THEN Outcome(NoteNotFoundError(title), None, book)
        ELSE Outcome(NoExc, book[CHOOSE i \in hits : \A j \in hits : i <= j], book)

Notebook_delete(book, title) ==
    LET hits == {i \in 1..Len(book) : book[i].title = title}
    IN  IF hits = {}
        THEN Outcome(NoteNotFoundError(title), None, book)
        ELSE LET first == CHOOSE i \in hits : \A j \in hits : i <= j
             IN  Outcome(NoExc, TRUE,
                         SubSeq(book, 1, first - 1) \o SubSeq(book, first + 1, Len(book)))

\* lines 92-99: one (field, value) item of updated_data applied to note
SetNoteField(note, field, value) ==
    CASE field = "title" ->
           IF ~Truthy(value) \/ strip(value) = <<>>
           THEN [exc |-> ValidationError, note |-> note]
           ELSE [exc |-> NoExc, note |-> [note EXCEPT !.title = strip(value)]]
      [] field = "text" ->
           [exc |-> NoExc,
            note |-> [note EXCEPT !.text = IF Truthy(value) THEN value ELSE <<>>]]
      [] field = "tags" ->
           [exc |-> NoExc, note |-> [note EXCEPT !.tags = TagsOrEmpty(value)]]
      [] OTHER -> [exc |-> NoExc, note |-> note]

\* line 91: for field, value in updated_data.items(), stopping at the first raise
RECURSIVE ApplyNoteFields(_, _)
ApplyNoteFields(note, updated_data) ==
    IF updated_data = <<>>
    THEN [exc |-> NoExc, note |-> note]
    ELSE LET step == SetNoteField(note, updated_data[1][1], updated_data[1][2])
         IN  IF step.exc # NoExc THEN step
             ELSE ApplyNoteFields(step.note, Tail(updated_data))

Notebook_edit(book, title, updated_data, t) ==
    IF IsNone(updated_data)
    THEN Outcome(ValidationError, None, book)
    ELSE
      LET hits == {i \in 1..Len(book) : normalize_text(book[i].title) = normalize_text(title)}
      IN  IF hits = {}
          THEN Outcome(NoteNotFoundError(title), None, book)
          ELSE LET first == CHOOSE i \in hits : \A j \in hits : i <= j
                   applied == ApplyNoteFields(book[first], Tail(updated_data))
               IN  IF applied.exc # NoExc
                   THEN Outcome(applied.exc, None, [book EXCEPT ![first] = applied.note])
                   ELSE Outcome(NoExc, TRUE,
                                [book EXCEPT ![first] =
                                    update_modified_time(applied.note, t)])

(***************************************************************************)
(* Searching (AddressBook.search, Notebook.search).                        *)
(***************************************************************************)
\* variant: needle is a prefix of hay
Contains_prefix(hay, needle) ==
    Len(needle) <= Len(hay) /\ SubSeq(hay, 1, Len(needle)) = needle

\* variant: an empty needle is found nowhere
Contains_nonempty(hay, needle) ==
    /\ needle # <<>>
    /\ \E i \in 0..(Len(hay) - Len(needle)) : SubSeq(hay, i + 1, i + Len(needle)) = needle

\* needle in hay
Contains(hay, needle) ==
    \E i \in 0..(Len(hay) - Len(needle)) : SubSeq(hay, i + 1, i + Len(needle)) = needle

\* sep.join(parts)
RECURSIVE join(_, _)
join(sep, parts) ==
    IF parts = <<>> THEN <<>>
    ELSE IF Len(parts) = 1 THEN parts[1]
    ELSE parts[1] \o sep \o join(sep, Tail(parts))

Digit(n) == <<"0", "1", "2", "3", "4", "5", "6", "7", "8", "9">>[n + 1]

\* date.strftime("%d-%m-%Y"), for a four-digit year
strftime(d) ==
    <<Digit(d[4] \div 10), Digit(d[4] % 10), "-",
      Digit(d[3] \div 10), Digit(d[3] % 10), "-",
      Digit(d[2] \div 1000), Digit((d[2] \div 100) % 10),
      Digit((d[2] \div 10) % 10), Digit(d[2] % 10)>>

\* field or ""
OrEmpty(v) == IF Truthy(v) THEN v ELSE <<>>

\* the text of a contact that search looks into
combined(contact) ==
    join(<<" ">>,
         <<OrEmpty(contact.name), OrEmpty(contact.last_name), OrEmpty(contact.company),
           OrEmpty(contact.phone), OrEmpty(contact.address), OrEmpty(contact.email),
           IF Truthy(contact.birthday) THEN strftime(contact.birthday) ELSE <<>>>>)

AddressBook_search(book, query) ==
    LET query_norm == normalize_text(query)
        Hit(contact) == Contains(normalize_text(combined(contact)), query_norm)
    IN  Outcome(NoExc, SelectSeq(book, Hit), book)

\* f"{note.title} {note.text or ''} {' '.join(note.tags)}"
note_combined(note) ==
    note.title \o <<" ">> \o OrEmpty(note.text) \o <<" ">> \o join(<<" ">>, note.tags)

Notebook_search(book, query) ==
    LET query_lower == lower(query)
        Hit(note) == Contains(lower(note_combined(note)), query_lower)
    IN  Outcome(NoExc, SelectSeq(book, Hit), book)

(***************************************************************************)
(* Sorting (AddressBook.sort, Notebook.sorted).                            *)
(***************************************************************************)
\* the characters in code point order
OrdTable ==
    <<" ", "!", "'", "(", ")", "+", "-", ".", "0", "1", "2", "3", "4", "5", "6", "7",
      "8", "9", "@", "A", "B", "_", "a", "b">>

Ord(c) == CHOOSE i \in 1..Len(OrdTable) : OrdTable[i] = c

\* a < b on str
RECURSIVE StrLess(_, _)
StrLess(a, b) ==
    IF b = <<>> THEN FALSE
    ELSE IF a = <<>> THEN TRUE
    ELSE IF a[1] = b[1] THEN StrLess(Tail(a), Tail(b))
    ELSE Ord(a[1]) < Ord(b[1])

\* sorted(items, key=...): the stable sort; before[i][j] tells that the key
\* of item i is less than that of item j, or greater under reverse=True,
\* which keeps equal keys in their original order as well
sorted(items, before) ==
    LET n == Len(items)
        pos(i) == 1 + Cardinality({j \in 1..n :
                        \/ before[j][i]
                        \/ ~before[i][j] /\ j < i})
    IN  [k \in 1..n |-> items[CHOOSE i \in 1..n : pos(i) = k]]

\* variant: the book itself is put in the order asked for
AddressBook_sort_inplace(book, by) ==
    LET ByName == [i \in 1..Len(book) |-> [j \in 1..Len(book) |->
                     StrLess(lower(full_name(book[i])), lower(full_name(book[j])))]]
        ByUpdated == [i \in 1..Len(book) |-> [j \in 1..Len(book) |->
                        book[i].last_modified > book[j].last_modified]]
    IN  IF by = "name" THEN Outcome(NoExc, sorted(book, ByName), sorted(book, ByName))
        ELSE IF by = "updated"
        THEN Outcome(NoExc, sorted(book, ByUpdated), sorted(book, ByUpdated))
        ELSE Outcome(ValueError, None, book)

AddressBook_sort(book, by) ==
    LET ByName == [i \in 1..Len(book) |-> [j \in 1..Len(book) |->
                     StrLess(lower(full_name(book[i])), lower(full_name(book[j])))]]
        ByUpdated == [i \in 1..Len(book) |-> [j \in 1..Len(book) |->
                        book[i].last_modified > book[j].last_modified]]
    IN  IF by = "name" THEN Outcome(NoExc, sorted(book, ByName), book)
        ELSE IF by = "updated" THEN Outcome(NoExc, sorted(book, ByUpdated), book)
        ELSE Outcome(ValueError, None, book)

\* variant: titles are compared as they are written
Notebook_sorted_cased(book, by) ==
    LET ByTitle == [i \in 1..Len(book) |-> [j \in 1..Len(book) |->
                      StrLess(book[i].title, book[j].title)]]
        ByModified == [i \in 1..Len(book) |-> [j \in 1..Len(book) |->
                         book[i].last_modified > book[j].last_modified]]
    IN  IF by = "title" THEN Outcome(NoExc, sorted(book, ByTitle), book)
        ELSE IF by = "last_modified" THEN Outcome(NoExc, sorted(book, ByModified), book)
        ELSE Outcome(ValueError, None, book)

Notebook_sorted(book, by) ==
    LET ByTitle == [i \in 1..Len(book) |-> [j \in 1..Len(book) |->
                      StrLess(lower(book[i].title), lower(book[j].title))]]
        ByModified == [i \in 1..Len(book) |-> [j \in 1..Len(book) |->
                         book[i].last_modified > book[j].last_modified]]
    IN  IF by = "title" THEN Outcome(NoExc, sorted(book, ByTitle), book)
        ELSE IF by = "last_modified" THEN Outcome(NoExc, sorted(book, ByModified), book)
        ELSE Outcome(ValueError, None, book)

(***************************************************************************)
(* Dates and timestamps (datetime.date, datetime.datetime).  A datetime is *)
(* the reading of the clock, a natural number; its ISO text is "T" and two *)
(* digits.                                                                 *)
(***************************************************************************)
IsLeap(y) == (y % 4 = 0 /\ y % 100 # 0) \/ y % 400 = 0

DaysInMonth(y, m) ==
    IF m = 2 THEN (IF IsLeap(y) THEN 29 ELSE 28)
    ELSE IF m \in {4, 6, 9, 11} THEN 30 ELSE 31

IsDigits(s) == \A i \in 1..Len(s) : s[i] \in DigitChars

DigitVal(c) == CHOOSE n \in 0..9 : Digit(n) = c

RECURSIVE int(_)
int(s) == IF s = <<>> THEN 0 ELSE 10 * int(SubSeq(s, 1, Len(s) - 1)) + DigitVal(s[Len(s)])

\* date.isoformat(): YYYY-MM-DD
date_isoformat(d) ==
    <<Digit(d[2] \div 1000), Digit((d[2] \div 100) % 10),
      Digit((d[2] \div 10) % 10), Digit(d[2] % 10), "-",
      Digit(d[3] \div 10), Digit(d[3] % 10), "-",
      Digit(d[4] \div 10), Digit(d[4] % 10)>>

\* date.fromisoformat(s): TypeError for a value that is no str, ValueError
\* for a text that is no date
date_fromisoformat(s) ==
    IF IsNone(s) THEN Raise(TypeError)
    ELSE IF ~(/\ Len(s) = 10 /\ s[5] = "-" /\ s[8] = "-"
              /\ IsDigits(SubSeq(s, 1, 4) \o SubSeq(s, 6, 7) \o SubSeq(s, 9, 10)))
    THEN Raise(ValueError)
    ELSE LET y == int(SubSeq(s, 1, 4))
             m == int(SubSeq(s, 6, 7))
             d == int(SubSeq(s, 9, 10))
         IN  IF y >= 1 /\ m \in 1..12 /\ d \in 1..DaysInMonth(y, m)
             THEN Return(<<"date", y, m, d>>)
             ELSE Raise(ValueError)

\* datetime.isoformat()
datetime_isoformat(t) == <<"T", Digit(t \div 10), Digit(t % 10)>>

\* datetime.fromisoformat(s)
datetime_fromisoformat(s) ==
    IF IsNone(s) THEN Raise(TypeError)
    ELSE IF Len(s) = 3 /\ s[1] = "T" /\ IsDigits(Tail(s))
    THEN Return(int(Tail(s)))
    ELSE Raise(ValueError)

\* date.replace(year=y): ValueError when the year has no such day
date_replace_year(d, y) ==
    IF d[4] <= DaysInMonth(y, d[3])
    THEN Return(<<"date", y, d[3], d[4]>>)
    ELSE Raise(ValueError)

RECURSIVE DaysBeforeMonth(_, _)
DaysBeforeMonth(y, m) ==
    IF m = 1 THEN 0 ELSE DaysBeforeMonth(y, m - 1) + DaysInMonth(y, m - 1)

\* date.toordinal()
toordinal(d) ==
    LET y == d[2] - 1
    IN  y * 365 + (y \div 4) - (y \div 100) + (y \div 400)
          + DaysBeforeMonth(d[2], d[3]) + d[4]

\* (a - b).days
days_between(a, b) == toordinal(a) - toordinal(b)

\* variant: a birthday exactly `days` away is left out
get_upcoming_birthdays_strict(book, days, today) ==
    LET Upcoming(contact) ==
            /\ Truthy(contact.birthday)
            /\ LET bday_this_year == date_replace_year(contact.birthday, today[2])
               IN  /\ bday_this_year.exc = NoExc
                   /\ LET delta == days_between(bday_this_year.val, today)
                      IN  0 <= delta /\ delta < days
    IN  Outcome(NoExc, SelectSeq(book, Upcoming), book)

\* AddressBook.get_upcoming_birthdays(days), today being date.today()
get_upcoming_birthdays(book, days, today) ==
    LET Upcoming(contact) ==
            /\ Truthy(contact.birthday)
            /\ LET bday_this_year == date_replace_year(contact.birthday, today[2])
               IN  /\ bday_this_year.exc = NoExc
                   /\ LET delta == days_between(bday_this_year.val, today)
                      IN  0 <= delta /\ delta <= days
    IN  Outcome(NoExc, SelectSeq(book, Upcoming), book)

(***************************************************************************)
(* JSONStorage (organizer/storage/json_storage.py).  The content of a file *)
(* is <<"absent">>, <<"garbage">> (no JSON text) or <<"json", data>>, data *)
(* the list of dicts; a dict is a record whose absent keys hold Missing.   *)
(***************************************************************************)
Missing == <<"missing">>

IsMissing(v) == Len(v) = 1 /\ v[1] = "missing"

\* data.get(key)
get(v) == IF IsMissing(v) THEN None ELSE v

contact_to_dict(contact) ==
    [name |-> contact.name,
     last_name |-> contact.last_name,
     company |-> contact.company,
     phone |-> contact.phone,
     address |-> contact.address,
     birthday |-> IF Truthy(contact.birthday) THEN date_isoformat(contact.birthday)
                  ELSE None,
     email |-> contact.email,
     last_modified |-> datetime_isoformat(contact.last_modified)]

save_addressbook(addressbook) ==
    <<"json", [i \in 1..Len(addressbook) |-> contact_to_dict(addressbook[i])]>>

load_from_file(content) ==
    IF content[1] = "garbage" THEN Raise(OrganizerError) ELSE Return(content[2])

\* KeyError, TypeError and ValueError become OrganizerError; the
\* ValidationError of Contact passes through.  The last_modified handed to
\* Contact is a field that __post_init__ then stamps with the clock.
dict_to_contact(data, t) ==
    IF IsMissing(data.name) THEN Raise(OrganizerError)
    ELSE LET birthday == IF Truthy(get(data.birthday))
                         THEN date_fromisoformat(data.birthday) ELSE Return(None)
         IN  IF birthday.exc # NoExc THEN Raise(OrganizerError)
             ELSE IF IsMissing(data.last_modified) THEN Raise(OrganizerError)
             ELSE LET last_modified == datetime_fromisoformat(data.last_modified)
                      made == Contact([name |-> data.name,
                                       last_name |-> get(data.last_name),
                                       company |-> get(data.company),
                                       phone |-> get(data.phone),
                                       address |-> get(data.address),
                                       birthday |-> birthday.val,
                                       email |-> get(data.email)], t)
                  IN  IF last_modified.exc # NoExc THEN Raise(OrganizerError)
                      ELSE IF made.exc # NoExc THEN made
                      ELSE Return(update_modified_time(
                             [made.val EXCEPT !.last_modified = last_modified.val], t))

\* for entry in data: addressbook.add(self._dict_to_contact(entry))
RECURSIVE add_contacts(_, _, _)
add_contacts(data, addressbook, t) ==
    IF data = <<>> THEN Return(addressbook)
    ELSE LET contact == dict_to_contact(data[1], t)
         IN  IF contact.exc # NoExc THEN Raise(contact.exc)
             ELSE LET added == AddressBook_add(addressbook, contact.val, FALSE, t)
                  IN  IF added.exc # NoExc THEN Raise(added.exc)
                      ELSE add_contacts(Tail(data), added.list, t)

load_addressbook(content, t) ==
    IF content[1] = "absent" THEN Return(<<>>)
    ELSE LET data == load_from_file(content)
         IN  IF data.exc # NoExc THEN Raise(data.exc)
             ELSE add_contacts(data.val, <<>>, t)

note_to_dict(note) ==
    [title |-> note.title,
     text |-> note.text,
     tags |-> <<"list">> \o note.tags,
     last_modified |-> datetime_isoformat(note.last_modified)]

save_notebook(notebook) ==
    <<"json", [i \in 1..Len(notebook) |-> note_to_dict(notebook[i])]>>

\* the timestamp of the file is assigned after the note is constructed
dict_to_note(data, t) ==
    IF IsMissing(data.title) THEN Raise(OrganizerError)
    ELSE LET made == Note(data.title, get(data.text),
                          IF IsMissing(data.tags) THEN <<"list">> ELSE data.tags, t)
         IN  IF made.exc # NoExc THEN made
             ELSE IF IsMissing(data.last_modified) THEN Raise(OrganizerError)
             ELSE LET last_modified == datetime_fromisoformat(data.last_modified)
                  IN  IF last_modified.exc # NoExc THEN Raise(OrganizerError)
                      ELSE Return([made.val EXCEPT !.last_modified = last_modified.val])

\* for entry in data: notebook.add(self._dict_to_note(entry))
RECURSIVE add_notes(_, _, _)
add_notes(data, notebook, t) ==
    IF data = <<>> THEN Return(notebook)
    ELSE LET note == dict_to_note(data[1], t)
         IN  IF note.exc # NoExc THEN Raise(note.exc)
             ELSE LET added == Notebook_add(notebook, <<note.val>>)
                  IN  IF added.exc # NoExc THEN Raise(added.exc)
                      ELSE add_notes(Tail(data), added.list, t)

load_notebook(content, t) ==
    IF content[1] = "absent" THEN Return(<<>>)
    ELSE LET data == load_from_file(content)
         IN  IF data.exc # NoExc THEN Raise(data.exc)
             ELSE add_notes(data.val, <<>>, t)

(***************************************************************************)
(* Startup (main.py).  The value of main is the pair of collections the UI *)
(* is started with; its exception is the one that escapes main.            *)
(***************************************************************************)
\* the two statements in sequence: the first that raises ends them
both(first, second) ==
    IF first.exc # NoExc THEN Raise(first.exc)
    ELSE IF second.exc # NoExc THEN Raise(second.exc)
    ELSE Return(<<first.val, second.val>>)

\* JSONStorage.__init__ loads both files itself
JSONStorage(fs, t) == both(load_addressbook(fs.contacts, t), load_notebook(fs.notes, t))

\* try: x = load() except OrganizerError: x = the empty collection
or_empty(loaded) ==
    IF IsOrganizerError(loaded.exc) THEN Return(<<>>) ELSE loaded

\* the storage is constructed, the collections are loaded, the UI is started
main(fs, t) ==
    both(JSONStorage(fs, t),
         both(or_empty(load_addressbook(fs.contacts, t)),
              or_empty(load_notebook(fs.notes, t))))

(***************************************************************************)
(* Inputs offered to the operations.                                       *)
(***************************************************************************)
S_ab == <<"a", "b">>
S_AB == <<"A", "B">>
S_aqb == <<"a", "'", "b">>
S_b == <<"b">>
S_a == <<"a">>
S_blank == <<" ">>
P_1 == <<"1">>
P_2 == <<"+", "2">>
E_ok == <<"a", "@", "b", ".", "a">>
E_bad == <<"a", "@", "b">>

CtorNames == {S_ab, S_aqb, S_blank}
CtorPhones == {None, P_1, S_a}
CtorEmails == {None, E_ok, E_bad}

ContactArgs ==
    [name : CtorNames, last_name : {None}, company : {None}, phone : CtorPhones,
     address : {None}, birthday : {None}, email : CtorEmails]

QueryNames == {S_AB, S_aqb, S_b, S_a}

\* the items offered in an edit mapping, and those offered as the first and
\* as the second of a mapping of two
EditItems ==
    ({"name"} \X {S_aqb, S_b, <<>>})
      \cup ({"phone"} \X {P_1, P_2, S_a, None})
      \cup ({"email"} \X {E_ok, E_bad, None})

EditFirstItems == {<<"name", S_b>>, <<"phone", P_1>>, <<"email", E_ok>>}

EditSecondItems ==
    {<<"name", <<>>>>, <<"name", S_aqb>>, <<"phone", S_a>>, <<"phone", P_1>>,
     <<"email", E_bad>>, <<"email", E_ok>>}

\* the dicts offered to AddressBook.edit: {}, one item, or two items with distinct keys
EditDicts ==
    {<<"dict">>}
      \cup {<<"dict", i>> : i \in EditItems}
      \cup {<<"dict", d[1], d[2]>> :
              d \in {e \in EditFirstItems \X EditSecondItems : e[1][1] # e[2][1]}}

(***************************************************************************)
(* The state machine.  contacts is AddressBook._contacts, notes is         *)
(* Notebook._notes, now is the next reading of datetime.now(), result is   *)
(* what the last call did: the operation, its argument (the contact or     *)
(* note for add, the name or title otherwise), the exception it raised     *)
(* (NoExc if none) and the value it returned.  save_callback tells whether *)
(* the AddressBook was given a save callback, saves lists what the         *)
(* callback found in the book each time the last call invoked it, mapping  *)
(* is the updated_data of the last edit that was logged, and files is the  *)
(* content of the two JSON files.                                          *)
(***************************************************************************)
\* the data directory: contacts.json and notes.json, each absent at first
NoFiles == [contacts |-> <<"absent">>, notes |-> <<"absent">>]

\* a list obtained from all() and kept by the caller: whether one was
\* obtained, whether it is still the list object the service holds, and, once
\* it is not, what it holds
NoList == [taken |-> FALSE, same |-> FALSE, list |-> <<>>]

LiveList == [taken |-> TRUE, same |-> TRUE, list |-> <<>>]

Contents(h, coll) == IF h.same THEN coll ELSE h.list

\* the kept list after an operation took the collection from old to new: the
\* service's own list object follows the collection until the service binds a
\* new one, and then keeps what it held; its records are the objects of the
\* collection, so a record edited in the collection is edited in it too
Follow(h, old, new, rebound) ==
    IF ~h.taken THEN h
    ELSE IF h.same
    THEN IF rebound THEN [taken |-> TRUE, same |-> FALSE, list |-> old] ELSE h
    ELSE [h EXCEPT !.list =
            [j \in 1..Len(h.list) |->
                IF Len(new) = Len(old)
                     /\ \E i \in 1..Len(old) : old[i] = h.list[j] /\ new[i] # old[i]
                THEN new[CHOOSE i \in 1..Len(old) : old[i] = h.list[j] /\ new[i] # old[i]]
                ELSE h.list[j]]]

Result(op, arg, out) == [op |-> op, arg |-> arg, exc |-> out.exc, val |-> out.val]

Init ==
    /\ contacts = <<>>
    /\ notes = <<>>
    /\ now = 0
    /\ result = Result("init", None, Return(None))
    /\ save_callback = FALSE
    /\ saves = <<>>
    /\ mapping = None
    /\ files = NoFiles
    /\ held = [contacts |-> NoList, notes |-> NoList]

\* c = Contact(**args); addressbook.add(c), while the book holds fewer than cap
AddContact(args, cap) ==
    LET made == Contact(args, now)
    IN  IF made.exc # NoExc
        THEN /\ result' = Result("Contact", None, made)
             /\ saves' = <<>>
             /\ UNCHANGED <<contacts, notes, now, save_callback, mapping, files, held>>
        ELSE LET out == AddressBook_add(contacts, made.val, FALSE, now)
             IN  /\ Len(contacts) < cap
                 /\ now < MaxClock
                 /\ contacts' = out.list
                 /\ now' = IF out.exc = NoExc THEN now + 1 ELSE now
                 /\ result' = Result("add", made.val, out)
                 /\ saves' = autosave(save_callback, out.saved)
                 /\ held' = [held EXCEPT !.contacts = Follow(@, contacts, out.list, out.rebound)]
                 /\ UNCHANGED <<notes, save_callback, mapping, files>>

GetContact(name) ==
    LET out == AddressBook_get(contacts, name)
    IN  /\ contacts' = out.list
        /\ result' = Result("get", name, out)
        /\ saves' = autosave(save_callback, out.saved)
        /\ UNCHANGED <<notes, now, save_callback, mapping, files, held>>

DeleteContact(name) ==
    LET out == AddressBook_delete(contacts, name)
    IN  /\ contacts' = out.list
        /\ result' = Result("delete", name, out)
        /\ saves' = autosave(save_callback, out.saved)
        /\ held' = [held EXCEPT !.contacts = Follow(@, contacts, out.list, out.rebound)]
        /\ UNCHANGED <<notes, now, save_callback, mapping, files>>

\* addressbook.edit(name, updated_data), but for the record kept in mapping
EditCall(name, updated_data) ==
    LET out == AddressBook_edit(contacts, name, updated_data, now)
    IN  /\ now < MaxClock
        /\ contacts' = out.list
        /\ now' = IF out.exc = NoExc THEN now + 1 ELSE now
        /\ result' = Result("edit", name, out)
        /\ saves' = autosave(save_callback, out.saved)
        /\ held' = [held EXCEPT !.contacts = Follow(@, contacts, out.list, out.rebound)]
        /\ UNCHANGED <<notes, save_callback, files>>

EditContact(name, updated_data) == EditCall(name, updated_data) /\ UNCHANGED mapping

\* the same call, its updated_data logged in mapping
EditContactLogged(name, updated_data) ==
    EditCall(name, updated_data) /\ mapping' = updated_data

NextAB ==
    \/ \E args \in ContactArgs : AddContact(args, MaxContacts)
    \/ \E name \in QueryNames : GetContact(name)
    \/ \E name \in QueryNames : DeleteContact(name)
    \/ \E name \in QueryNames, updated_data \in EditDicts : EditContact(name, updated_data)

SpecAB == Init /\ [][NextAB]_vars

\* contacts that carry a name only, added to a book of up to MaxNamed, then
\* looked up and deleted
NamedArgs ==
    [name : {S_ab, S_aqb, S_b}, last_name : {None}, company : {None}, phone : {None},
     address : {None}, birthday : {None}, email : {None}]

NextABNamed ==
    \/ \E args \in NamedArgs : AddContact(args, MaxNamed)
    \/ \E name \in QueryNames : GetContact(name)
    \/ \E name \in QueryNames : DeleteContact(name)

SpecABNamed == Init /\ [][NextABNamed]_vars

\* two contacts of one normalized name, edited one field at a time (every
\* field, a None value, an unknown key) or two, each edit logged
D_1 == <<"date", 1990, 12, 28>>

FieldArgs ==
    [name : {S_ab, S_aqb}, last_name : {None}, company : {None}, phone : {None},
     address : {None}, birthday : {None}, email : {None}]

FieldItems ==
    {<<"name", S_b>>, <<"last_name", S_a>>, <<"company", S_a>>,
     <<"phone", P_2>>, <<"phone", None>>, <<"address", S_a>>,
     <<"email", E_ok>>, <<"birthday", D_1>>, <<"nickname", S_a>>}

FieldDicts ==
    {<<"dict">>}
      \cup {<<"dict", i>> : i \in FieldItems}
      \cup {<<"dict", <<"company", S_a>>, <<"phone", P_2>>>>,
            <<"dict", <<"last_name", S_a>>, <<"name", S_b>>>>}

NextABFields ==
    \/ \E args \in FieldArgs : AddContact(args, MaxContacts)
    \/ \E name \in {S_AB, S_b} : GetContact(name)
    \/ \E name \in {S_AB, S_b} : DeleteContact(name)
    \/ \E name \in {S_AB, S_b}, updated_data \in FieldDicts :
          EditContactLogged(name, updated_data)

SpecABFields == Init /\ [][NextABFields]_vars

\* contacts with every field set or with a name only, edited with one field
\* mapped to None or to the empty string
SentinelArgs ==
    [name : {S_ab, S_b}, last_name : {S_a}, company : {S_a}, phone : {P_1},
     address : {S_a}, birthday : {D_1}, email : {E_ok}]
      \cup [name : {S_ab}, last_name : {None}, company : {None}, phone : {None},
             address : {None}, birthday : {None}, email : {None}]

Sentinels == {None, <<>>}

SentinelDicts ==
    {<<"dict", <<f, v>>>> :
        f \in {"name", "last_name", "company", "phone", "address", "email", "birthday"},
        v \in Sentinels}

NextABSentinel ==
    \/ \E args \in SentinelArgs : AddContact(args, MaxContacts)
    \/ \E name \in {S_AB, S_b} : DeleteContact(name)
    \/ \E name \in {S_AB, S_b}, updated_data \in SentinelDicts :
          EditContactLogged(name, updated_data)

SpecABSentinel == Init /\ [][NextABSentinel]_vars

\* the same book constructed with a save callback: AddressBook(save_callback=f)
InitSave ==
    /\ contacts = <<>>
    /\ notes = <<>>
    /\ now = 0
    /\ result = Result("init", None, Return(None))
    /\ save_callback = TRUE
    /\ saves = <<>>
    /\ mapping = None
    /\ files = NoFiles
    /\ held = [contacts |-> NoList, notes |-> NoList]

SpecABSave == InitSave /\ [][NextABFields]_vars

(***************************************************************************)
(* Notebook inputs and actions.                                            *)
(***************************************************************************)
CtorTitles == {S_ab, S_AB, S_b, S_blank}
CtorTexts == {None, S_a}
CtorTags == {None, <<"list", S_a>>}

QueryTitles == {S_ab, S_AB, S_b, S_a}

NoteItems ==
    ({"title"} \X {S_ab, S_b, <<>>})
      \cup ({"text"} \X {S_b, None})
      \cup ({"tags"} \X {<<"list", S_b>>, None})

NoteFirstItems == {<<"title", S_b>>, <<"text", S_b>>, <<"tags", <<"list", S_b>>>>}

\* the values offered to Notebook.edit as updated_data: None, {}, one item, or
\* two items with distinct keys
NoteDicts ==
    {None, <<"dict">>}
      \cup {<<"dict", i>> : i \in NoteItems}
      \cup {<<"dict", d[1], d[2]>> :
              d \in {e \in NoteFirstItems \X NoteItems : e[1][1] # e[2][1]}}

\* n = Note(title, text, tags); notebook.add(n)
AddNote(title, text, tags) ==
    LET made == Note(title, text, tags, now)
    IN  IF made.exc # NoExc
        THEN /\ result' = Result("Note", None, made)
             /\ UNCHANGED <<contacts, notes, now, saves, save_callback, mapping, files, held>>
        ELSE LET out == Notebook_add(notes, <<made.val>>)
             IN  /\ Len(notes) < MaxNotes
                 /\ now < MaxClock
                 /\ notes' = out.list
                 /\ now' = IF out.exc = NoExc THEN now + 1 ELSE now
                 /\ result' = Result("add", made.val, out)
                 /\ held' = [held EXCEPT !.notes = Follow(@, notes, notes', FALSE)]
                 /\ UNCHANGED <<contacts, saves, save_callback, mapping, files>>

\* notebook.add(None)
AddNoneNote ==
    LET out == Notebook_add(notes, <<>>)
    IN  /\ notes' = out.list
        /\ result' = Result("add", None, out)
        /\ held' = [held EXCEPT !.notes = Follow(@, notes, notes', FALSE)]
        /\ UNCHANGED <<contacts, now, saves, save_callback, mapping, files>>

GetNoteCall(op, title) ==
    LET out == Notebook_get(notes, title)
    IN  /\ notes' = out.list
        /\ result' = Result(op, title, out)
        /\ UNCHANGED <<contacts, now, saves, save_callback, mapping, files, held>>

GetNote(title) == GetNoteCall("get", title)

\* the same call, told from AddressBook.get where both collections are used
GetNoteNamed(title) == GetNoteCall("Notebook.get", title)

DeleteNote(title) ==
    LET out == Notebook_delete(notes, title)
    IN  /\ notes' = out.list
        /\ result' = Result("delete", title, out)
        /\ held' = [held EXCEPT !.notes = Follow(@, notes, notes', FALSE)]
        /\ UNCHANGED <<contacts, now, saves, save_callback, mapping, files>>

EditNoteCall(op, title, updated_data) ==
    LET out == Notebook_edit(notes, title, updated_data, now)
    IN  /\ now < MaxClock
        /\ notes' = out.list
        /\ now' = IF out.exc = NoExc THEN now + 1 ELSE now
        /\ result' = Result(op, title, out)
        /\ held' = [held EXCEPT !.notes = Follow(@, notes, notes', FALSE)]
        /\ UNCHANGED <<contacts, saves, save_callback, mapping, files>>

EditNote(title, updated_data) == EditNoteCall("edit", title, updated_data)

\* the same call, told from AddressBook.edit where both collections are used
EditNoteNamed(title, updated_data) == EditNoteCall("Notebook.edit", title, updated_data)

\* notebook.all()[i].update(None, None, tags): a note of the notebook is
\* updated through the object itself
UpdateNote(i, tags) ==
    LET out == Note_update(notes[i], None, None, tags, now)
    IN  /\ i \in 1..Len(notes)
        /\ now < MaxClock
        /\ notes' = [notes EXCEPT ![i] = out.note]
        /\ now' = IF out.exc = NoExc THEN now + 1 ELSE now
        /\ result' = Result("Note.update", None, [exc |-> out.exc, val |-> None])
        /\ held' = [held EXCEPT !.notes = Follow(@, notes, notes', FALSE)]
        /\ UNCHANGED <<contacts, saves, save_callback, mapping, files>>

\* notebook.all()[i].add_tag(tag)
AddTag(i, tag) ==
    LET out == Note_add_tag(notes[i], tag, now)
    IN  /\ i \in 1..Len(notes)
        /\ now < MaxClock
        /\ notes' = [notes EXCEPT ![i] = out.note]
        /\ now' = IF out.exc = NoExc THEN now + 1 ELSE now
        /\ result' = Result("Note.add_tag", tag, [exc |-> out.exc, val |-> None])
        /\ held' = [held EXCEPT !.notes = Follow(@, notes, notes', FALSE)]
        /\ UNCHANGED <<contacts, saves, save_callback, mapping, files>>

\* tag lists: absent, empty, one tag, and a list holding the empty string
TagLists == {None, <<"list">>, <<"list", S_a>>, <<"list", <<>>>>}

NextTags ==
    \/ \E title \in {S_a, S_b}, tags \in TagLists : AddNote(title, None, tags)
    \/ \E title \in {S_a, S_b}, tags \in TagLists :
          EditNote(title, <<"dict", <<"tags", tags>>>>)
    \/ \E title \in {S_a, S_b} : DeleteNote(title)
    \/ \E i \in 1..MaxNotes, tags \in TagLists : UpdateNote(i, tags)
    \/ \E i \in 1..MaxNotes, tag \in {S_a, <<>>, S_blank, None} : AddTag(i, tag)

SpecTags == Init /\ [][NextTags]_vars

\* notes looked up, edited and deleted by titles that differ from the stored
\* ones in letter case only, by other titles and by the stored titles; every
\* edit is given a mapping
KeyDicts == {<<"dict">>, <<"dict", <<"text", S_b>>>>, <<"dict", <<"title", S_b>>>>}

\* kept = addressbook.all(): the caller keeps the list the book returns, which
\* is the list object the book itself holds
AllContacts ==
    /\ held' = [held EXCEPT !.contacts = LiveList]
    /\ result' = Result("all", None, Return(contacts))
    /\ saves' = <<>>
    /\ UNCHANGED <<contacts, notes, now, save_callback, mapping, files>>

\* kept = notebook.all()
AllNotes ==
    /\ held' = [held EXCEPT !.notes = LiveList]
    /\ result' = Result("Notebook.all", None, Return(notes))
    /\ UNCHANGED <<contacts, notes, now, saves, save_callback, mapping, files>>

\* both collections changed by add, edit and delete while the caller keeps a
\* list obtained from all()
AliasArgs ==
    [name : {S_a, S_b}, last_name : {None}, company : {None}, phone : {None},
     address : {None}, birthday : {None}, email : {None}]

NextAlias ==
    \/ \E args \in AliasArgs : AddContact(args, MaxContacts)
    \/ \E name \in {S_a, S_b} : DeleteContact(name)
    \/ \E name \in {S_a, S_b} : EditContact(name, <<"dict", <<"company", S_a>>>>)
    \/ AllContacts
    \/ \E title \in {S_a, S_b} : AddNote(title, None, None)
    \/ \E title \in {S_a, S_b} : DeleteNote(title)
    \/ \E title \in {S_a, S_b} : EditNote(title, <<"dict", <<"text", S_a>>>>)
    \/ AllNotes

SpecAlias == Init /\ [][NextAlias]_vars

NextNBKey ==
    \/ \E title \in {S_ab, S_AB, S_b}, text \in CtorTexts : AddNote(title, text, None)
    \/ \E title \in QueryTitles : GetNote(title)
    \/ \E title \in QueryTitles : DeleteNote(title)
    \/ \E title \in QueryTitles, updated_data \in KeyDicts : EditNote(title, updated_data)

SpecNBKey == Init /\ [][NextNBKey]_vars

NextNB ==
    \/ \E title \in CtorTitles, text \in CtorTexts, tags \in CtorTags :
          AddNote(title, text, tags)
    \/ AddNoneNote
    \/ \E title \in QueryTitles : GetNote(title)
    \/ \E title \in QueryTitles : DeleteNote(title)
    \/ \E title \in QueryTitles, updated_data \in NoteDicts : EditNote(title, updated_data)

SpecNB == Init /\ [][NextNB]_vars

(***************************************************************************)
(* Queries over both collections: a book of up to MaxContacts contacts     *)
(* (one with a phone, one with a birthday, one with a last name) and a     *)
(* notebook of up to MaxNotes notes, searched and sorted.                  *)
(***************************************************************************)
P_123 == <<"1", "2", "3">>
Q_12 == <<"1", "2">>
Q_1dash2 == <<"1", "-", "2">>
Q_a_b == <<"a", " ", "b">>
Q_bang == <<"!">>

QueryArgs ==
    {[name |-> S_a, last_name |-> None, company |-> None, phone |-> P_123,
      address |-> None, birthday |-> None, email |-> None],
     [name |-> S_b, last_name |-> None, company |-> None, phone |-> None,
      address |-> None, birthday |-> D_1, email |-> None],
     [name |-> S_a, last_name |-> S_b, company |-> None, phone |-> None,
      address |-> None, birthday |-> None, email |-> None]}

ContactQueries == {<<>>, Q_12, Q_1dash2, S_AB, Q_bang, S_b}
NoteQueries == {<<>>, S_AB, Q_a_b, S_b}

SearchContacts(query) ==
    LET out == AddressBook_search(contacts, query)
    IN  /\ contacts' = out.list
        /\ result' = Result("search", query, out)
        /\ saves' = autosave(save_callback, out.saved)
        /\ UNCHANGED <<notes, now, save_callback, mapping, files, held>>

SearchNotes(query) ==
    LET out == Notebook_search(notes, query)
    IN  /\ notes' = out.list
        /\ result' = Result("Notebook.search", query, out)
        /\ UNCHANGED <<contacts, now, saves, save_callback, mapping, files, held>>

SortContacts(by) ==
    LET out == AddressBook_sort(contacts, by)
    IN  /\ contacts' = out.list
        /\ result' = Result("sort", by, out)
        /\ saves' = autosave(save_callback, out.saved)
        /\ UNCHANGED <<notes, now, save_callback, mapping, files, held>>

SortNotes(by) ==
    LET out == Notebook_sorted(notes, by)
    IN  /\ notes' = out.list
        /\ result' = Result("Notebook.sorted", by, out)
        /\ UNCHANGED <<contacts, now, saves, save_callback, mapping, files, held>>

NextQuery ==
    \/ \E args \in QueryArgs : AddContact(args, MaxContacts)
    \/ \E title \in {S_ab, <<"B">>, S_a}, tags \in {None, <<"list", S_a, S_b>>} :
          AddNote(title, None, tags)
    \/ \E query \in ContactQueries : SearchContacts(query)
    \/ \E query \in NoteQueries : SearchNotes(query)
    \/ \E by \in {"name", "updated", "title"} : SortContacts(by)
    \/ \E by \in {"title", "last_modified", "name"} : SortNotes(by)

SpecQuery == Init /\ [][NextQuery]_vars

(***************************************************************************)
(* Timestamps: contacts are added, by a plain add or with the preserve     *)
(* flag after having been constructed at an earlier reading t0 of the      *)
(* clock, and contacts and notes are edited.                               *)
(***************************************************************************)
StampArgs ==
    {[name |-> n, last_name |-> None, company |-> None, phone |-> None,
      address |-> None, birthday |-> None, email |-> None] : n \in {S_a, S_b}}

\* c = Contact(**args) at time t0; later addressbook.add(c, preserve_modified_time=True)
AddPreserved(args, t0) ==
    LET made == Contact(args, t0)
        out == AddressBook_add(contacts, made.val, TRUE, now)
    IN  /\ made.exc = NoExc
        /\ Len(contacts) < MaxContacts
        /\ contacts' = out.list
        /\ result' = Result("add_preserve", made.val, out)
        /\ saves' = autosave(save_callback, out.saved)
        /\ held' = [held EXCEPT !.contacts = Follow(@, contacts, out.list, out.rebound)]
        /\ UNCHANGED <<notes, now, save_callback, mapping, files>>

NextStamp ==
    \/ \E args \in StampArgs : AddContact(args, MaxContacts)
    \/ \E args \in StampArgs, t0 \in 0..now : AddPreserved(args, t0)
    \/ \E name \in {S_a, S_b},
          updated_data \in {<<"dict">>, <<"dict", <<"phone", S_a>>>>} :
          EditContactLogged(name, updated_data)
    \/ AddNote(S_a, None, None)
    \/ \E title \in {S_a, S_b} : EditNoteNamed(title, <<"dict", <<"text", S_b>>>>)

SpecStamp == Init /\ [][NextStamp]_vars

(***************************************************************************)
(* Birthdays: contacts born on several days of the year, asked for on      *)
(* several days (in June, at the end of February in a leap and in a common *)
(* year, at the end of December) and for several spans.                    *)
(***************************************************************************)
Birthdays ==
    {None, <<"date", 1990, 6, 5>>, <<"date", 1990, 6, 10>>, <<"date", 1990, 6, 1>>,
     <<"date", 1990, 5, 31>>, <<"date", 2000, 2, 29>>, <<"date", 1990, 1, 2>>}

Todays ==
    {<<"date", 2024, 6, 1>>, <<"date", 2024, 2, 25>>, <<"date", 2023, 2, 25>>,
     <<"date", 2024, 12, 28>>}

BirthdayArgs ==
    {[name |-> S_a, last_name |-> None, company |-> None, phone |-> None,
      address |-> None, birthday |-> b, email |-> None] : b \in Birthdays}

UpcomingBirthdays(days, today) ==
    LET out == get_upcoming_birthdays(contacts, days, today)
    IN  /\ contacts' = out.list
        /\ result' = Result("get_upcoming_birthdays", <<days, today>>, out)
        /\ saves' = autosave(save_callback, out.saved)
        /\ UNCHANGED <<notes, now, save_callback, mapping, files, held>>

NextBirthdays ==
    \/ \E args \in BirthdayArgs : AddContact(args, MaxContacts)
    \/ \E days \in {0, 4, 7}, today \in Todays : UpcomingBirthdays(days, today)

SpecBirthdays == Init /\ [][NextBirthdays]_vars

\* every query of both services, on a book constructed with a save callback
FrameArgs ==
    {[name |-> S_b, last_name |-> None, company |-> None, phone |-> None,
      address |-> None, birthday |-> D_1, email |-> None],
     [name |-> S_a, last_name |-> None, company |-> None, phone |-> P_123,
      address |-> None, birthday |-> None, email |-> None]}

NextFrame ==
    \/ \E args \in FrameArgs : AddContact(args, MaxContacts)
    \/ \E title \in {<<"B">>, S_a} : AddNote(title, None, None)
    \/ \E name \in {S_a, S_ab} : GetContact(name)
    \/ \E query \in {<<>>, S_b} : SearchContacts(query)
    \/ \E by \in {"name", "updated", "title"} : SortContacts(by)
    \/ \E days \in {0, 7} : UpcomingBirthdays(days, <<"date", 2024, 12, 28>>)
    \/ \E title \in {S_a, S_ab} : GetNoteNamed(title)
    \/ \E query \in {<<>>, S_b} : SearchNotes(query)
    \/ \E by \in {"title", "last_modified", "name"} : SortNotes(by)

SpecFrame == InitSave /\ [][NextFrame]_vars

(***************************************************************************)
(* Saving, loading and starting up: the program's collections are saved to *)
(* the two files and loaded from them, and the files are also written from *)
(* outside the program.                                                    *)
(***************************************************************************)
StoreArgs ==
    {[name |-> S_a, last_name |-> None, company |-> None, phone |-> P_123,
      address |-> None, birthday |-> None, email |-> None],
     [name |-> S_b, last_name |-> None, company |-> None, phone |-> None,
      address |-> None, birthday |-> D_1, email |-> None]}

R_ok ==
    [name |-> <<"A">>, last_name |-> None, company |-> None, phone |-> P_123,
     address |-> None, birthday |-> None, email |-> None, last_modified |-> <<"T", "0", "0">>]

N_ok ==
    [title |-> S_a, text |-> <<>>, tags |-> <<"list">>, last_modified |-> <<"T", "0", "0">>]

ContactFiles ==
    {<<"absent">>, <<"garbage">>,
     <<"json", <<R_ok, [R_ok EXCEPT !.name = Missing]>>>>,
     <<"json", <<[R_ok EXCEPT !.last_modified = S_a]>>>>,
     <<"json", <<[R_ok EXCEPT !.birthday = S_a], R_ok>>>>,
     <<"json", <<R_ok, R_ok, [R_ok EXCEPT !.last_modified = Missing]>>>>}

NoteFiles ==
    {<<"absent">>, <<"garbage">>,
     <<"json", <<N_ok, [N_ok EXCEPT !.last_modified = Missing]>>>>,
     <<"json", <<[N_ok EXCEPT !.title = Missing]>>>>,
     <<"json", <<N_ok, N_ok, [N_ok EXCEPT !.last_modified = S_a]>>>>}

SaveBook ==
    /\ files' = [files EXCEPT !.contacts = save_addressbook(contacts)]
    /\ result' = Result("save_addressbook", None, Return(None))
    /\ UNCHANGED <<contacts, notes, now, saves, save_callback, mapping, held>>

SaveNotes ==
    /\ files' = [files EXCEPT !.notes = save_notebook(notes)]
    /\ result' = Result("save_notebook", None, Return(None))
    /\ UNCHANGED <<contacts, notes, now, saves, save_callback, mapping, held>>

\* the program replaces its address book by the one loaded; the clock is
\* capped where a load would advance it, so a load that fails is always enabled
LoadBook ==
    LET out == load_addressbook(files.contacts, now)
    IN  /\ now < MaxClock \/ out.exc # NoExc
        /\ contacts' = IF out.exc = NoExc THEN out.val ELSE contacts
        /\ now' = IF out.exc = NoExc THEN now + 1 ELSE now
        /\ result' = Result("load_addressbook", None, out)
        /\ UNCHANGED <<notes, saves, save_callback, mapping, files, held>>

LoadNotes ==
    LET out == load_notebook(files.notes, now)
    IN  /\ now < MaxClock \/ out.exc # NoExc
        /\ notes' = IF out.exc = NoExc THEN out.val ELSE notes
        /\ now' = IF out.exc = NoExc THEN now + 1 ELSE now
        /\ result' = Result("load_notebook", None, out)
        /\ UNCHANGED <<contacts, saves, save_callback, mapping, files, held>>

\* a file is written, or removed, from outside the program
WriteContactsFile(content) ==
    /\ files' = [files EXCEPT !.contacts = content]
    /\ result' = Result("write", None, Return(None))
    /\ UNCHANGED <<contacts, notes, now, saves, save_callback, mapping, held>>

WriteNotesFile(content) ==
    /\ files' = [files EXCEPT !.notes = content]
    /\ result' = Result("write", None, Return(None))
    /\ UNCHANGED <<contacts, notes, now, saves, save_callback, mapping, held>>

\* the program is started on the files as they are
Main ==
    \E out \in {main(files, now)} :
        /\ now < MaxClock
        /\ contacts' = IF out.exc = NoExc THEN out.val[2][1] ELSE contacts
        /\ notes' = IF out.exc = NoExc THEN out.val[2][2] ELSE notes
        /\ now' = IF out.exc = NoExc THEN now + 1 ELSE now
        /\ result' = Result("main", None,
                            IF out.exc = NoExc THEN Return(out.val[2]) ELSE out)
        /\ UNCHANGED <<saves, save_callback, mapping, files, held>>

NextStore ==
    \/ \E args \in StoreArgs : AddContact(args, MaxContacts)
    \/ \E tags \in {None, <<"list", S_a>>} : AddNote(S_a, None, tags)
    \/ SaveBook
    \/ SaveNotes
    \/ LoadBook
    \/ LoadNotes
    \/ \E content \in ContactFiles : WriteContactsFile(content)
    \/ \E content \in NoteFiles : WriteNotesFile(content)
    \/ Main

SpecStore == Init /\ [][NextStore]_vars

\* collections changed by add, edit and delete, saved and loaded back: two
\* contacts of one phone and two notes, each renamed by an edit
RenameArgs ==
    [name : {S_a, S_b}, last_name : {None}, company : {None}, phone : {P_123},
     address : {None}, birthday : {None}, email : {None}]

NextSaved ==
    \/ \E args \in RenameArgs : AddContact(args, MaxContacts)
    \/ \E name \in {S_a, S_b} : EditContact(name, <<"dict", <<"name", S_a>>>>)
    \/ DeleteContact(S_a)
    \/ SaveBook
    \/ LoadBook
    \/ \E title \in {S_a, S_b} : AddNote(title, None, None)
    \/ \E title \in {S_a, S_b} : EditNote(title, <<"dict", <<"title", S_a>>>>)
    \/ DeleteNote(S_a)
    \/ SaveNotes
    \/ LoadNotes

SpecSaved == Init /\ [][NextSaved]_vars

(***************************************************************************)
(* Properties.                                                             *)
(***************************************************************************)
\* the positions of book whose contact's normalized name is that of q
MatchIdx(book, q) ==
    {i \in 1..Len(book) : normalize_text(book[i].name) = normalize_text(q)}

\* sub lists exactly the elements of book at the positions idx, in book's order
IsOrderedSelection(sub, book, idx) ==
    /\ Len(sub) = Cardinality(idx)
    /\ \A i \in idx : sub[Cardinality({j \in idx : j <= i})] = book[i]

Failed(r) == r.exc.type # "none"

\* C1: an AddressBook add, edit or delete that fails with an error leaves the
\* address book exactly as it was: same contacts, same order, every field of
\* every contact unchanged.
C1_FailedCallLeavesBook ==
    [][(result'.op \in {"add", "edit", "delete"} /\ Failed(result'))
          => contacts' = contacts]_vars

\* C2: a Notebook add, edit or delete that fails with an error leaves the
\* notebook exactly as it was: same notes, same order, title, text, tags and
\* last_modified of every note unchanged.
C2_FailedCallLeavesNotebook ==
    [][(result'.op \in {"add", "edit", "delete"} /\ Failed(result'))
          => notes' = notes]_vars

\* C3: no two notes held by the notebook have the same title.
C3_UniqueTitles ==
    \A i, j \in 1..Len(notes) : i # j => notes[i].title # notes[j].title

\* C4: no two distinct contacts of the book have the same normalized name
\* together with the same non-empty phone or the same non-empty email.
C4_NoDuplicateEntries ==
    \A i, j \in 1..Len(contacts) :
        (i # j /\ normalize_text(contacts[i].name) = normalize_text(contacts[j].name))
          => /\ ~(Truthy(contacts[i].phone) /\ contacts[i].phone = contacts[j].phone)
             /\ ~(Truthy(contacts[i].email) /\ contacts[i].email = contacts[j].email)

\* C5: add(c) fails and leaves the book unchanged whenever the book holds a
\* contact with c's normalized name and with c's non-empty phone or c's
\* non-empty email.
C5_AddRefusesDuplicate ==
    [][(/\ result'.op = "add"
        /\ \E i \in MatchIdx(contacts, result'.arg.name) :
              \/ (Truthy(result'.arg.phone) /\ contacts[i].phone = result'.arg.phone)
              \/ (Truthy(result'.arg.email) /\ contacts[i].email = result'.arg.email))
          => (Failed(result') /\ contacts' = contacts)]_vars

\* C6: adding a contact with the same name and the same phone as a contact of
\* the book fails with DuplicateEntryError carrying the conflicting name, and
\* with no other kind of error.
C6_DuplicateRaisesDuplicateEntryError ==
    [][(/\ result'.op = "add"
        /\ Truthy(result'.arg.phone)
        /\ \E i \in 1..Len(contacts) :
              contacts[i].name = result'.arg.name /\ contacts[i].phone = result'.arg.phone)
          => result'.exc = [type |-> "DuplicateEntryError", key |-> result'.arg.name]]_vars

\* C7: adding a contact whose name a contact of the book already has, and
\* which shares no non-empty phone and no non-empty email with any contact of
\* that name, succeeds and appends it; get(name) returns exactly the contacts
\* whose normalized name is the normalized query, in insertion order, whatever
\* the case or punctuation of the query.
C7_SameNameAddsAndGet ==
    [][/\ (/\ result'.op = "add"
           /\ \E i \in 1..Len(contacts) : contacts[i].name = result'.arg.name
           /\ \A i \in 1..Len(contacts) :
                 contacts[i].name = result'.arg.name
                   => /\ ~(Truthy(result'.arg.phone)
                             /\ contacts[i].phone = result'.arg.phone)
                      /\ ~(Truthy(result'.arg.email)
                             /\ contacts[i].email = result'.arg.email))
            => /\ ~Failed(result')
               /\ Len(contacts') = Len(contacts) + 1
               /\ SubSeq(contacts', 1, Len(contacts)) = contacts
               /\ [contacts'[Len(contacts')] EXCEPT !.last_modified = 0]
                     = [result'.arg EXCEPT !.last_modified = 0]
       /\ (result'.op = "get" /\ MatchIdx(contacts', result'.arg) # {})
            => /\ ~Failed(result')
               /\ IsOrderedSelection(result'.val, contacts',
                                     MatchIdx(contacts', result'.arg))
               /\ contacts' = contacts]_vars

\* two contacts of one name and of different phones are in the book and a
\* query written in another case and punctuation returned both
C7_Witness ==
    /\ result.op = "get"
    /\ ~Failed(result)
    /\ Len(result.val) = 2
    /\ result.val = contacts
    /\ contacts[1].name = contacts[2].name
    /\ Truthy(contacts[1].phone) /\ Truthy(contacts[2].phone)
    /\ contacts[1].phone # contacts[2].phone
    /\ lower(result.arg) # lower(contacts[1].name)

\* the phone format: a non-empty string of digits, "+", "-", "(", ")" and spaces
PhoneFormat(p) ==
    /\ Len(p) > 0
    /\ \A i \in 1..Len(p) : p[i] \in {"1", "2", "+", "-", "(", ")", " "}

\* the email format: an "@" followed, somewhere after the last "@", by a "."
EmailFormat(e) ==
    \E i \in 1..Len(e) :
        /\ e[i] = "@"
        /\ \A j \in (i + 1)..Len(e) : e[j] # "@"
        /\ \E j \in (i + 1)..Len(e) : e[j] = "."

\* C8: every contact of the book has a non-empty name, and its phone and its
\* email are each unset or of the phone / email format.
C8_StoredContactsValid ==
    \A i \in 1..Len(contacts) :
        /\ Truthy(contacts[i].name)
        /\ IsNone(contacts[i].phone) \/ PhoneFormat(contacts[i].phone)
        /\ IsNone(contacts[i].email) \/ EmailFormat(contacts[i].email)

\* an edit was rejected for an invalid value while the book holds a contact
\* with a phone and an email
C8_Witness ==
    /\ result.op = "edit"
    /\ result.exc.type = "ValidationError"
    /\ \E i \in 1..Len(contacts) : Truthy(contacts[i].phone) /\ Truthy(contacts[i].email)

DictKeys(d) == {d[k][1] : k \in 2..Len(d)}

ContactFields ==
    {"name", "last_name", "company", "phone", "address", "birthday", "email",
     "last_modified"}

\* C11: a successful edit(name, fields) changes only the first contact, in
\* insertion order, whose normalized name matches, and on it only the fields
\* present in the mapping and last_modified; every other contact, later ones
\* of the same name included, the unlisted fields, and the order and length of
\* the book are unchanged.
C11_EditTouchesFirstMatchOnly ==
    [][(result'.op = "edit" /\ ~Failed(result'))
          => LET hits == MatchIdx(contacts, result'.arg)
                 first == CHOOSE i \in hits : \A j \in hits : i <= j
             IN  /\ hits # {}
                 /\ Len(contacts') = Len(contacts)
                 /\ \A i \in 1..Len(contacts) : i # first => contacts'[i] = contacts[i]
                 /\ \A f \in ContactFields \ (DictKeys(mapping') \cup {"last_modified"}) :
                       contacts'[first][f] = contacts[first][f]]_vars

\* an edit of the company succeeded in a book of two contacts of the sought
\* name, and only the first of them has the new company
C11_Witness ==
    /\ result.op = "edit"
    /\ ~Failed(result)
    /\ Len(contacts) = 2
    /\ MatchIdx(contacts, result.arg) = {1, 2}
    /\ DictKeys(mapping) = {"company"}
    /\ contacts[1].company = S_a
    /\ IsNone(contacts[2].company)

C13_EmptyQueryReturnsAll ==
    /\ (result.op = "search" /\ result.arg = <<>>)
          => (~Failed(result) /\ result.val = contacts)
    /\ (result.op = "Notebook.search" /\ result.arg = <<>>)
          => (~Failed(result) /\ result.val = notes)

\* search("") on a notebook of two notes returned them both, beside a book
\* that holds a contact
C13_Witness ==
    /\ result.op = "Notebook.search"
    /\ result.arg = <<>>
    /\ Len(notes) = 2
    /\ Len(result.val) = 2
    /\ Len(contacts) = 1

\* the text of the fields of a contact, unset fields contributing nothing,
\* the birthday as DD-MM-YYYY
FieldsText(c) ==
    OrEmpty(c.name) \o OrEmpty(c.last_name) \o OrEmpty(c.company) \o OrEmpty(c.phone)
      \o OrEmpty(c.address) \o OrEmpty(c.email)
      \o (IF Truthy(c.birthday) THEN strftime(c.birthday) ELSE <<>>)

IsSubstring(n, h) ==
    n = <<>> \/ \E i, j \in 1..Len(h) : SubSeq(h, i, j) = n

\* C14: AddressBook.search(query) returns exactly the contacts, in insertion
\* order, for which the normalized query is a substring of the normalized
\* concatenation of name, last_name, company, phone, address, email and the
\* birthday formatted DD-MM-YYYY.
C14_SearchSelectsByNormalizedFields ==
    result.op = "search"
       => /\ ~Failed(result)
          /\ LET Wanted(c) ==
                     IsSubstring(normalize_text(result.arg), normalize_text(FieldsText(c)))
             IN  result.val = SelectSeq(contacts, Wanted)

\* search("12") on the contact with phone 123 and the contact with a last
\* name returned the first and not the second
C14_Witness ==
    /\ result.op = "search"
    /\ result.arg = Q_12
    /\ Len(contacts) = 2
    /\ Len(result.val) = 1
    /\ result.val[1].phone = P_123

\* the same records, each as many times
IsPermutation(a, b) ==
    /\ Len(a) = Len(b)
    /\ \A i \in 1..Len(a) :
          Cardinality({j \in 1..Len(a) : a[j] = a[i]})
             = Cardinality({j \in 1..Len(b) : b[j] = a[i]})

\* C15: AddressBook.sort and Notebook.sorted return a permutation of the whole
\* collection ordered by the requested key: "name" (the full name) and
\* "title" ascending and case-insensitive, "updated" and "last_modified" in
\* non-increasing last_modified order; any other key raises ValueError.
C15_SortedByRequestedKey ==
    /\ result.op = "sort"
          => IF result.arg \in {"name", "updated"}
             THEN /\ ~Failed(result)
                  /\ IsPermutation(result.val, contacts)
                  /\ \A i, j \in 1..Len(result.val) :
                        i < j => IF result.arg = "name"
                                 THEN ~StrLess(lower(full_name(result.val[j])),
                                               lower(full_name(result.val[i])))
                                 ELSE result.val[i].last_modified
                                         >= result.val[j].last_modified
             ELSE result.exc = ValueError
    /\ result.op = "Notebook.sorted"
          => IF result.arg \in {"title", "last_modified"}
             THEN /\ ~Failed(result)
                  /\ IsPermutation(result.val, notes)
                  /\ \A i, j \in 1..Len(result.val) :
                        i < j => IF result.arg = "title"
                                 THEN ~StrLess(lower(result.val[j].title),
                                               lower(result.val[i].title))
                                 ELSE result.val[i].last_modified
                                         >= result.val[j].last_modified
             ELSE result.exc = ValueError

\* sorted("title") on the notes "B", "ab" returned "ab" before "B"
C15_Witness ==
    /\ result.op = "Notebook.sorted"
    /\ result.arg = "title"
    /\ Len(notes) = 2
    /\ notes[1].title = <<"B">>
    /\ result.val[1].title = S_ab
    /\ result.val[2].title = <<"B">>

\* C16: loading a file that holds the saved collection yields the same
\* records in the same order, with equal fields and the same last_modified,
\* for the address book and for the notebook, empty or not.
C16_RoundTrip ==
    [][/\ (result'.op = "load_addressbook" /\ files.contacts = save_addressbook(contacts))
            => (~Failed(result') /\ contacts' = contacts)
       /\ (result'.op = "load_notebook" /\ files.notes = save_notebook(notes))
            => (~Failed(result') /\ notes' = notes)]_vars

BadContactRecord(r) ==
    \/ IsMissing(r.name)
    \/ IsMissing(r.last_modified)
    \/ datetime_fromisoformat(r.last_modified).exc # NoExc
    \/ Truthy(get(r.birthday)) /\ date_fromisoformat(r.birthday).exc # NoExc

BadNoteRecord(r) ==
    \/ IsMissing(r.title)
    \/ IsMissing(r.last_modified)
    \/ datetime_fromisoformat(r.last_modified).exc # NoExc

BadContactsFile(content) ==
    \/ content[1] = "garbage"
    \/ content[1] = "json" /\ \E i \in 1..Len(content[2]) : BadContactRecord(content[2][i])

BadNotesFile(content) ==
    \/ content[1] = "garbage"
    \/ content[1] = "json" /\ \E i \in 1..Len(content[2]) : BadNoteRecord(content[2][i])

\* C17: a load from a file whose content cannot be parsed, or in which some
\* record lacks a required field or has an unparseable date or timestamp,
\* fails with an OrganizerError and hands over no collection, whichever
\* record is the bad one.
C17_BadFileRaisesOrganizerError ==
    /\ (result.op = "load_addressbook" /\ BadContactsFile(files.contacts))
          => (IsOrganizerError(result.exc) /\ IsNone(result.val))
    /\ (result.op = "load_notebook" /\ BadNotesFile(files.notes))
          => (IsOrganizerError(result.exc) /\ IsNone(result.val))

\* C18: started on any files, the program does not crash: a load that fails
\* is replaced by an empty collection, and the UI is started with both
\* collections.
C18_StartupSurvivesBadFiles ==
    result.op = "main"
       => /\ ~Failed(result)
          /\ Len(result.val) = 2
          /\ (load_addressbook(files.contacts, 0).exc # NoExc => result.val[1] = <<>>)
          /\ (load_notebook(files.notes, 0).exc # NoExc => result.val[2] = <<>>)

\* record i of the collection has the time of the operation, which is not
\* before the time it had and not before that of any other record
StampedNow(old, new, i) ==
    /\ new[i].last_modified = now
    /\ i <= Len(old) => new[i].last_modified >= old[i].last_modified
    /\ \A j \in 1..Len(new) : new[i].last_modified >= new[j].last_modified

\* C19: a successful AddressBook.add without the preserve flag,
\* AddressBook.edit or Notebook.edit sets the last_modified of the record it
\* mutates to the time of the operation, which is not before the time the
\* record had nor before that of any other record of the collection;
\* AddressBook.add with the preserve flag leaves the contact's last_modified
\* as it was.
C19_MutationStampsRecord ==
    [][/\ (result'.op = "add" /\ ~Failed(result') /\ notes' = notes)
            => StampedNow(contacts, contacts', Len(contacts'))
       /\ (result'.op = "edit" /\ ~Failed(result'))
            => StampedNow(contacts, contacts',
                          CHOOSE i \in MatchIdx(contacts, result'.arg) :
                             \A j \in MatchIdx(contacts, result'.arg) : i <= j)
       /\ (result'.op = "Notebook.edit" /\ ~Failed(result'))
            => \E i \in 1..Len(notes) :
                  /\ notes'[i] # notes[i]
                  /\ StampedNow(notes, notes', i)
       /\ (result'.op = "add_preserve" /\ ~Failed(result'))
            => /\ Len(contacts') = Len(contacts) + 1
               /\ contacts'[Len(contacts')] = result'.arg]_vars

\* a contact constructed at time 0 was added with the preserve flag at a
\* later time, after a contact stamped later than 0, and kept its time
C19_Witness ==
    /\ result.op = "add_preserve"
    /\ ~Failed(result)
    /\ Len(contacts) = 2
    /\ contacts[2].last_modified = 0
    /\ contacts[1].last_modified > 0
    /\ now > 1

\* the day after d
NextDay(d) ==
    IF d[4] < DaysInMonth(d[2], d[3]) THEN <<"date", d[2], d[3], d[4] + 1>>
    ELSE IF d[3] < 12 THEN <<"date", d[2], d[3] + 1, 1>>
    ELSE <<"date", d[2] + 1, 1, 1>>

RECURSIVE DaysAfter(_, _)
DaysAfter(d, n) == IF n = 0 THEN d ELSE NextDay(DaysAfter(d, n - 1))

\* C20: get_upcoming_birthdays(days) returns exactly the contacts, in book
\* order, that have a birthday whose month and day in the current year are
\* the date d days after today for some d in 0..days; a contact without a
\* birthday, born on Feb 29 when the year has none, or whose birthday this
\* year is past or further away, is not returned.
C20_UpcomingBirthdays ==
    result.op = "get_upcoming_birthdays"
       => LET days == result.arg[1]
              today == result.arg[2]
              Due(c) == /\ IsDate(c.birthday)
                        /\ \E d \in 0..days :
                              DaysAfter(today, d)
                                 = <<"date", today[2], c.birthday[3], c.birthday[4]>>
          IN  ~Failed(result) /\ result.val = SelectSeq(contacts, Due)

\* today is 2024-06-01 and days is 7: of the contacts born on 06-05 and on
\* 06-10, the first is returned and the second is not
C20_Witness ==
    /\ result.op = "get_upcoming_birthdays"
    /\ result.arg = <<7, <<"date", 2024, 6, 1>>>>
    /\ Len(contacts) = 2
    /\ contacts[1].birthday = <<"date", 1990, 6, 5>>
    /\ contacts[2].birthday = <<"date", 1990, 6, 10>>
    /\ result.val = <<contacts[1]>>

\* C21: no note of the notebook has the empty string among its tags,
\* whatever notes were constructed and whatever Note.update, Note.add_tag and
\* Notebook add, edit and delete calls were made.
C21_NoEmptyTag ==
    \A i \in 1..Len(notes) : \A k \in 1..Len(notes[i].tags) : notes[i].tags[k] # <<>>

\* C22: an edit that maps last_name, company, phone, address, email or
\* birthday to None or to the empty string succeeds and leaves that field None
\* on the first contact of the sought name; one that maps name to None or to
\* the empty string fails with ValidationError.
C22_SentinelClearsField ==
    [][(/\ result'.op = "edit"
        /\ mapping' \in SentinelDicts
        /\ MatchIdx(contacts, result'.arg) # {})
          => LET hits == MatchIdx(contacts, result'.arg)
                 first == CHOOSE i \in hits : \A j \in hits : i <= j
                 field == mapping'[2][1]
             IN  IF field = "name"
                 THEN result'.exc = ValidationError
                 ELSE /\ ~Failed(result')
                      /\ contacts'[first][field] = None]_vars

C24_EditKeyIsGetKey ==
    [][(result'.op = "edit")
          => ((result'.exc = NoteNotFoundError(result'.arg) /\ notes' = notes)
                <=> Notebook_get(notes, result'.arg).exc = NoteNotFoundError(result'.arg))]_vars

\* C25: a list obtained from AddressBook.all() or Notebook.all() is the live
\* collection: after any later add, edit and delete calls on the service it has
\* the contents, in the order, of a fresh call to all().
C25_AllIsLive ==
    /\ held.contacts.taken => Contents(held.contacts, contacts) = contacts
    /\ held.notes.taken => Contents(held.notes, notes) = notes

\* C26: whatever add, edit and delete calls made the address book or the
\* notebook, loading the file that holds the saved collection raises no error
\* and yields as many records as were saved.
C26_SavedCollectionLoads ==
    [][/\ (result'.op = "load_addressbook" /\ files.contacts = save_addressbook(contacts))
            => (~Failed(result') /\ Len(contacts') = Len(contacts))
       /\ (result'.op = "load_notebook" /\ files.notes = save_notebook(notes))
            => (~Failed(result') /\ Len(notes') = Len(notes))]_vars

\* C27: get, search, sort and get_upcoming_birthdays of the address book and
\* get, search and sorted of the notebook, succeeding or failing, leave both
\* collections as they were, in contents, order, every field and
\* last_modified of every record, and do not invoke the save callback.
C27_QueriesChangeNothing ==
    [][/\ result'.op \in {"get", "search", "sort", "get_upcoming_birthdays"}
            => (contacts' = contacts /\ notes' = notes /\ saves' = <<>>)
       /\ result'.op \in {"Notebook.get", "Notebook.search", "Notebook.sorted"}
            => (contacts' = contacts /\ notes' = notes /\ saves' = saves)]_vars

\* a sort by name returned the two contacts of the book in the other order
\* than the book, which was added to with a save callback, holds them
C27_Witness ==
    /\ save_callback
    /\ result.op = "sort"
    /\ ~Failed(result)
    /\ Len(contacts) = 2
    /\ result.val = <<contacts[2], contacts[1]>>
    /\ saves = <<>>

====
